---- MODULE Spec2Model ----
(***************************************************************************)
(* Model of the SchurSieve evaluator (src/schur_sieve.py).                 *)
(*                                                                         *)
(* The evaluator object owns three fields: _primes, _h_basis and _degree.  *)
(* Its three public methods are compute_basis, evaluate_partition and      *)
(* compare_topologies.  Each method is an operator taking the object       *)
(* (self) and the arguments and giving the object after the call, the      *)
(* outcome of the call (a returned value or a raised exception) and the    *)
(* Jacobi-Trudi matrices built on the way.                                 *)
(*                                                                         *)
(* float64 values are modelled as exact rationals [n |-> num, d |-> den]   *)
(* in lowest terms, so "equal within floating-point tolerance" is exact    *)
(* equality here; np.isclose keeps its absolute tolerance.                 *)
(***************************************************************************)
EXTENDS Integers, Sequences, FiniteSets, TLC

VARIABLES primes, h_basis, degree, op, args, outcome, built, repeated, ready_degree

vars == <<primes, h_basis, degree, op, args, outcome, built, repeated, ready_degree>>

(* ---------------------------- bounds ----------------------------------- *)
MaxDegree == 3
MaxLen == 2
MaxPart == 2

(* ------------------------ exact arithmetic ----------------------------- *)
Abs(x) == IF x < 0 THEN -x ELSE x

RECURSIVE GCD(_, _)
GCD(a, b) == IF b = 0 THEN a ELSE GCD(b, a % b)

RNorm(n, d) ==
    LET g == GCD(Abs(n), d)
    IN  [n |-> n \div g, d |-> d \div g]

Zero == [n |-> 0, d |-> 1]
One == [n |-> 1, d |-> 1]
FromInt(i) == [n |-> i, d |-> 1]

RNeg(x) == [n |-> -x.n, d |-> x.d]

RAdd(x, y) ==
    LET g == GCD(x.d, y.d)
        l == (x.d \div g) * y.d
    IN  RNorm(x.n * (l \div x.d) + y.n * (l \div y.d), l)

RMul(x, y) ==
    LET g1 == GCD(Abs(x.n), y.d)
        g2 == GCD(Abs(y.n), x.d)
    IN  RNorm((x.n \div g1) * (y.n \div g2), (x.d \div g2) * (y.d \div g1))

RInv(x) == IF x.n > 0 THEN [n |-> x.d, d |-> x.n] ELSE [n |-> -x.d, d |-> -x.n]

RDiv(x, y) == RMul(x, RInv(y))

RECURSIVE RPow(_, _)
RPow(x, k) == IF k = 0 THEN One ELSE RMul(x, RPow(x, k - 1))

RECURSIVE RSum(_)
RSum(s) == IF Len(s) = 0 THEN Zero ELSE RAdd(RSum(SubSeq(s, 1, Len(s) - 1)), s[Len(s)])

(* ------------------------- python values ------------------------------- *)
None == <<>>
Some(x) == <<x>>

NoValue == [none |-> TRUE]
Return(v) == [kind |-> "return", exc |-> "", value |-> v]
Raise(e) == [kind |-> "raise", exc |-> e, value |-> NoValue]

Self(p, h, d) == [primes |-> p, h_basis |-> h, degree |-> d]

(* ------------------------- compute_basis ------------------------------- *)
Reciprocal(p) == [n |-> 1, d |-> p]

PowerSums(ps, max_degree) ==
    LET betas == [i \in 1..Len(ps) |-> Reciprocal(ps[i])]
    IN  [k \in 1..max_degree |-> RSum([i \in 1..Len(betas) |-> RPow(betas[i], k)])]

TermSum(p_sums, h, n) ==
    RSum([k \in 1..n |-> RMul(p_sums[k], h[n - k + 1])])

RECURSIVE NewtonLoop_no_division(_, _, _, _)
NewtonLoop_no_division(p_sums, h, n, max_degree) ==
    IF n > max_degree
    THEN h
    ELSE NewtonLoop_no_division(p_sums, Append(h, TermSum(p_sums, h, n)),
                                n + 1, max_degree)

RECURSIVE NewtonLoop(_, _, _, _)
NewtonLoop(p_sums, h, n, max_degree) ==
    IF n > max_degree
    THEN h
    ELSE NewtonLoop(p_sums, Append(h, RDiv(TermSum(p_sums, h, n), FromInt(n))),
                    n + 1, max_degree)

compute_basis_reset_first(self, max_degree) ==
    IF max_degree <= 0
    THEN [self |-> Self(self.primes, <<>>, 0), out |-> Raise("ValueError"),
          built |-> <<>>]
    ELSE [self |-> Self(self.primes,
                        NewtonLoop(PowerSums(self.primes, max_degree), <<One>>, 1,
                                   max_degree),
                        max_degree),
          out |-> Return(NoValue), built |-> <<>>]

compute_basis_short_range(self, max_degree) ==
    IF max_degree <= 0
    THEN [self |-> self, out |-> Raise("ValueError"), built |-> <<>>]
    ELSE [self |-> Self(self.primes,
                        NewtonLoop(PowerSums(self.primes, max_degree), <<One>>, 1,
                                   max_degree - 1),
                        max_degree),
          out |-> Return(NoValue), built |-> <<>>]

compute_basis(self, max_degree) ==
    IF max_degree <= 0
    THEN [self |-> self, out |-> Raise("ValueError"), built |-> <<>>]
    ELSE LET p_sums == PowerSums(self.primes, max_degree)
             h == NewtonLoop(p_sums, <<One>>, 1, max_degree)
         IN  [self |-> Self(self.primes, h, max_degree),
              out |-> Return(NoValue), built |-> <<>>]

(* --------------------- _construct_jacobi_trudi ------------------------- *)
Zeros(n) == [i \in 1..n |-> 0]

PadMu(lam, mu) ==
    IF Len(mu) # Len(lam)
    THEN mu \o Zeros(IF Len(lam) - Len(mu) > 0 THEN Len(lam) - Len(mu) ELSE 0)
    ELSE mu

Idx(lam, mu, i, j) == lam[i + 1] - mu[j + 1] - i + j

construct_jacobi_trudi_zeroing(self, lam, mu) ==
    Return([i \in 1..Len(lam) |-> [j \in 1..Len(lam) |->
        IF \/ Idx(lam, PadMu(lam, mu), i - 1, j - 1) < 0
           \/ Idx(lam, PadMu(lam, mu), i - 1, j - 1) >= Len(self.h_basis)
        THEN Zero
        ELSE self.h_basis[Idx(lam, PadMu(lam, mu), i - 1, j - 1) + 1]]])

construct_jacobi_trudi_wraparound(self, lam, mu) ==
    LET k == Len(lam)
        mu_p == PadMu(lam, mu)
        n == Len(self.h_basis)
    IN  IF \E i, j \in 0..(k - 1) :
              \/ Idx(lam, mu_p, i, j) >= n
              \/ Idx(lam, mu_p, i, j) < -n
        THEN Raise("IndexError")
        ELSE Return([i \in 1..k |-> [j \in 1..k |->
                 IF Idx(lam, mu_p, i - 1, j - 1) < 0
                 THEN self.h_basis[n + Idx(lam, mu_p, i - 1, j - 1) + 1]
                 ELSE self.h_basis[Idx(lam, mu_p, i - 1, j - 1) + 1]]])

construct_jacobi_trudi(self, lam, mu) ==
    LET k == Len(lam)
        mu_p == PadMu(lam, mu)
    IN  IF \E i, j \in 0..(k - 1) :
              /\ ~(Idx(lam, mu_p, i, j) < 0)
              /\ Idx(lam, mu_p, i, j) >= Len(self.h_basis)
        THEN Raise("IndexError")
        ELSE Return([i \in 1..k |-> [j \in 1..k |->
                 IF Idx(lam, mu_p, i - 1, j - 1) < 0
                 THEN Zero
                 ELSE self.h_basis[Idx(lam, mu_p, i - 1, j - 1) + 1]]])

(* ------------------------- np.linalg.det ------------------------------- *)
Minor(m, c) ==
    [i \in 1..(Len(m) - 1) |->
        [j \in 1..(Len(m) - 1) |-> m[i + 1][IF j < c THEN j ELSE j + 1]]]

RECURSIVE Det(_)
Det(m) ==
    IF Len(m) = 0
    THEN One
    ELSE RSum([c \in 1..Len(m) |->
             IF m[1][c] = Zero
             THEN Zero
             ELSE RMul(IF c % 2 = 1 THEN m[1][c] ELSE RNeg(m[1][c]),
                       Det(Minor(m, c)))])

(* ----------------------- evaluate_partition ---------------------------- *)
evaluate_partition_no_guard(self, lam, mu_opt) ==
    LET m == construct_jacobi_trudi(self, lam,
                 IF mu_opt = None THEN Zeros(Len(lam)) ELSE mu_opt[1])
    IN  IF m.kind = "raise"
        THEN [self |-> self, out |-> m, built |-> <<>>]
        ELSE [self |-> self, out |-> Return(Det(m.value)), built |-> <<m.value>>]

evaluate_partition_growing(self, lam, mu_opt) ==
    LET m == construct_jacobi_trudi(self, lam,
                 IF mu_opt = None THEN Zeros(Len(lam)) ELSE mu_opt[1])
    IN  IF Len(self.h_basis) = 0
        THEN [self |-> self, out |-> Raise("RuntimeError"), built |-> <<>>]
        ELSE IF m.kind = "raise"
        THEN [self |-> compute_basis(self, self.degree + 1).self, out |-> m,
              built |-> <<>>]
        ELSE [self |-> self, out |-> Return(Det(m.value)), built |-> <<m.value>>]

evaluate_partition_empty_zero(self, lam, mu_opt) ==
    LET m == construct_jacobi_trudi(self, lam,
                 IF mu_opt = None THEN Zeros(Len(lam)) ELSE mu_opt[1])
    IN  IF Len(self.h_basis) = 0
        THEN [self |-> self, out |-> Raise("RuntimeError"), built |-> <<>>]
        ELSE IF m.kind = "raise"
        THEN [self |-> self, out |-> m, built |-> <<>>]
        ELSE [self |-> self,
              out |-> Return(IF Len(lam) = 0 THEN Zero ELSE Det(m.value)),
              built |-> <<m.value>>]

evaluate_partition(self, lam, mu_opt) ==
    LET mu == IF mu_opt = None THEN Zeros(Len(lam)) ELSE mu_opt[1]
    IN  IF Len(self.h_basis) = 0
        THEN [self |-> self, out |-> Raise("RuntimeError"), built |-> <<>>]
        ELSE LET m == construct_jacobi_trudi(self, lam, mu)
             IN  IF m.kind = "raise"
                 THEN [self |-> self, out |-> m, built |-> <<>>]
                 ELSE [self |-> self, out |-> Return(Det(m.value)),
                       built |-> <<m.value>>]

(* ----------------------- compare_topologies ---------------------------- *)
IsCloseAtolDen == 100000000
IsCloseRtolDen == 100000

IsClose(a, b) ==
    LET diff == RAdd(a, RNeg(b))
        tol == RAdd([n |-> 1, d |-> IsCloseAtolDen],
                    RMul([n |-> 1, d |-> IsCloseRtolDen], [n |-> Abs(b.n), d |-> b.d]))
    IN  Abs(diff.n) <= (tol.n * diff.d) \div tol.d

compare_topologies_wrong_operand(self, config_a, config_b) ==
    LET ea == evaluate_partition(self, config_a.lam, config_a.mu)
        eb == evaluate_partition(self, config_b.lam, config_b.mu)
    IN  IF ea.out.kind = "raise"
        THEN ea
        ELSE IF eb.out.kind = "raise"
        THEN [self |-> self, out |-> eb.out, built |-> ea.built \o eb.built]
        ELSE [self |-> self,
              out |-> IF IsClose(eb.out.value, Zero)
                      THEN Raise("ValueError")
                      ELSE Return([capacity_denominator |-> ea.out.value,
                                   capacity_numerator |-> eb.out.value,
                                   chi_ratio |-> IF ea.out.value = Zero
                                                 THEN [n |-> 1, d |-> 0]
                                                 ELSE RDiv(eb.out.value, ea.out.value)]),
              built |-> ea.built \o eb.built]

compare_topologies(self, config_a, config_b) ==
    LET ea == evaluate_partition(self, config_a.lam, config_a.mu)
    IN  IF ea.out.kind = "raise"
        THEN ea
        ELSE LET eb == evaluate_partition(ea.self, config_b.lam, config_b.mu)
             IN  IF eb.out.kind = "raise"
                 THEN [self |-> eb.self, out |-> eb.out, built |-> ea.built \o eb.built]
                 ELSE LET s_a == ea.out.value
                          s_b == eb.out.value
                      IN  [self |-> eb.self,
                           out |-> IF IsClose(s_a, Zero)
                                   THEN Raise("ValueError")
                                   ELSE Return([capacity_denominator |-> s_a,
                                                capacity_numerator |-> s_b,
                                                chi_ratio |-> RDiv(s_b, s_a)]),
                           built |-> ea.built \o eb.built]

(* --------------------------- error kinds ------------------------------- *)
InvalidDegreeError == "ValueError"
BasisUninitializedError == "RuntimeError"
InsufficientBasisDegreeError == "IndexError"
SingularTopologyError == "ValueError"

(* ----------------------------- inputs ---------------------------------- *)
PrimeSeqs == {<<2>>, <<2, 3>>}

Degrees == (-1)..MaxDegree

Partitions == UNION {[1..n -> 0..MaxPart] : n \in 0..MaxLen}

OptPartitions == {None} \cup {Some(m) : m \in Partitions}

Config(lam, mu_opt) == [lam |-> lam, mu |-> mu_opt]

References == {Config(lam, mu) : lam \in Partitions, mu \in OptPartitions}

Targets == {Config(<<>>, Some(<<>>)), Config(<<1>>, None), Config(<<1, 1>>, Some(<<0>>))}

(* -------------------------- state machine ------------------------------ *)
(* op, args, outcome and built describe the call the caller has just made  *)
(* and not yet dropped; op = "idle" when the caller holds no result.       *)
Init ==
    /\ primes \in PrimeSeqs
    /\ h_basis = <<>>
    /\ degree = 0
    /\ op = "idle"
    /\ args = NoValue
    /\ outcome = Return(NoValue)
    /\ built = <<>>
    /\ repeated = FALSE
    /\ ready_degree = 0

Apply(r) ==
    /\ primes' = r.self.primes
    /\ h_basis' = r.self.h_basis
    /\ degree' = r.self.degree
    /\ outcome' = r.out
    /\ built' = r.built

ComputeBasis ==
    /\ op = "idle"
    /\ \E d \in Degrees :
        LET r == compute_basis(Self(primes, h_basis, degree), d)
        IN  /\ Apply(r)
            /\ op' = "compute_basis"
            /\ args' = [max_degree |-> d]
            /\ repeated' = FALSE
            /\ ready_degree' = IF r.out.kind = "return" THEN d ELSE ready_degree

Evaluate(lam, mu) ==
    LET r == evaluate_partition(Self(primes, h_basis, degree), lam, mu)
    IN  /\ Apply(r)
        /\ op' = "evaluate_partition"
        /\ args' = Config(lam, mu)
        /\ repeated' = (op = "evaluate_partition")
        /\ UNCHANGED ready_degree

EvaluatePartition ==
    \/ /\ op = "idle"
       /\ \E lam \in Partitions, mu \in OptPartitions : Evaluate(lam, mu)
    \/ /\ op = "evaluate_partition"
       /\ Evaluate(args.lam, args.mu)

CompareTopologies ==
    /\ op = "idle"
    /\ \E a \in References, b \in Targets :
        LET r == compare_topologies(Self(primes, h_basis, degree), a, b)
        IN  /\ Apply(r)
            /\ op' = "compare_topologies"
            /\ args' = [config_a |-> a, config_b |-> b]
            /\ repeated' = FALSE
            /\ UNCHANGED ready_degree

Discard ==
    /\ op # "idle"
    /\ op' = "idle"
    /\ args' = NoValue
    /\ outcome' = Return(NoValue)
    /\ built' = <<>>
    /\ repeated' = FALSE
    /\ UNCHANGED <<primes, h_basis, degree, ready_degree>>

Next == ComputeBasis \/ EvaluatePartition \/ CompareTopologies \/ Discard

Spec == Init /\ [][Next]_vars

(* ------------------------------ claims --------------------------------- *)
(* The index of cell (i, j), rows and columns counted from 1, for a        *)
(* configuration whose mu is zero-padded when short and all zeros when     *)
(* omitted.                                                                *)
ClaimMu(cfg, j) ==
    IF cfg.mu = None THEN 0
    ELSE IF j <= Len(cfg.mu[1]) THEN cfg.mu[1][j] ELSE 0

ClaimIdx(cfg, i, j) == cfg.lam[i] - ClaimMu(cfg, j) - i + j

ClaimCells(cfg) == (1..Len(cfg.lam)) \X (1..Len(cfg.lam))

ClaimPowerSum(k) ==
    RSum([i \in 1..Len(primes) |-> RPow([n |-> 1, d |-> primes[i]], k)])

BasisReady == ready_degree > 0

(* C1: while no compute_basis call has succeeded, every evaluate_partition *)
(* and compare_topologies call raises the basis-uninitialized error, for   *)
(* every argument, the empty shape included.                               *)
C1_UninitializedFails ==
    (~BasisReady /\ op \in {"evaluate_partition", "compare_topologies"})
        => outcome = Raise(BasisUninitializedError)

C1_Witness ==
    /\ ~BasisReady
    /\ op = "evaluate_partition"
    /\ args = Config(<<>>, Some(<<>>))
    /\ outcome = Raise(BasisUninitializedError)

(* C2: with a basis of degree D, evaluate_partition raises the             *)
(* insufficient-degree error whenever some cell has index > D; otherwise   *)
(* it returns, and a cell of index exactly D holds h_D.                    *)
C2_DegreeGuard ==
    (BasisReady /\ op = "evaluate_partition") =>
        IF \E c \in ClaimCells(args) : ClaimIdx(args, c[1], c[2]) > degree
        THEN outcome = Raise(InsufficientBasisDegreeError) /\ built = <<>>
        ELSE /\ outcome.kind = "return"
             /\ Len(built) = 1
             /\ \A c \in ClaimCells(args) :
                    ClaimIdx(args, c[1], c[2]) = degree
                        => built[1][c[1]][c[2]] = h_basis[degree + 1]

C2_Witness ==
    /\ BasisReady
    /\ op = "evaluate_partition"
    /\ \E c \in ClaimCells(args) : ClaimIdx(args, c[1], c[2]) = degree + 1
    /\ outcome = Raise(InsufficientBasisDegreeError)

(* C3: when both configurations evaluate without error and the reference   *)
(* capacity is 0, compare_topologies raises the singular-topology error    *)
(* and returns no record.                                                  *)
C3_SingularReference ==
    (op = "compare_topologies" /\ Len(built) = 2 /\ Det(built[1]) = Zero)
        => outcome = Raise(SingularTopologyError)

C3_Witness ==
    /\ op = "compare_topologies"
    /\ Len(built) = 2
    /\ Len(built[1]) = 2
    /\ Det(built[1]) = Zero
    /\ Det(built[2]) # Zero
    /\ outcome = Raise(SingularTopologyError)

(* C4: compute_basis with max_degree <= 0 raises the invalid-degree error  *)
(* and leaves primes, basis and degree as they were.                       *)
C4_InvalidDegreeKeepsState ==
    [][(op' = "compute_basis" /\ args'.max_degree <= 0)
          => /\ outcome' = Raise(InvalidDegreeError)
             /\ UNCHANGED <<primes, h_basis, degree>>]_vars

C4_Witness ==
    /\ op = "compute_basis"
    /\ args.max_degree <= 0
    /\ outcome = Raise(InvalidDegreeError)
    /\ BasisReady
    /\ Len(h_basis) = ready_degree + 1

(* C5: the stored basis satisfies Newton's recurrence                      *)
(* n * h_n = sum_{k=1..n} p_k * h_{n-k} for every n in 1..D, with p_k the   *)
(* k-th power sum of the reciprocals of the stored primes.                 *)
C5_RecurrenceLaw ==
    BasisReady =>
        \A n \in 1..ready_degree :
            RMul(FromInt(n), h_basis[n + 1])
                = RSum([k \in 1..n |-> RMul(ClaimPowerSum(k), h_basis[n - k + 1])])

C5_Witness ==
    /\ op = "compute_basis"
    /\ outcome.kind = "return"
    /\ ready_degree = MaxDegree
    /\ Len(primes) = 2

(* C6: whenever the basis is non-empty it has length D + 1, D being the    *)
(* degree of the most recent successful compute_basis call, and h_0 = 1.   *)
C6_BaseCase ==
    Len(h_basis) > 0 =>
        /\ BasisReady
        /\ Len(h_basis) = ready_degree + 1
        /\ degree = ready_degree
        /\ h_basis[1] = One

C6_Witness ==
    /\ Len(h_basis) > 2
    /\ op = "compare_topologies"
    /\ outcome.kind = "raise"

(* C7: evaluate_partition and compare_topologies leave primes, basis and   *)
(* degree unchanged, and evaluate_partition called again with the same     *)
(* arguments gives the same outcome.                                       *)
C7_Idempotence ==
    [][/\ op' \in {"evaluate_partition", "compare_topologies"}
          => UNCHANGED <<primes, h_basis, degree>>
       /\ (op = "evaluate_partition" /\ op' = "evaluate_partition" /\ args' = args)
          => outcome' = outcome]_vars

C7_Witness ==
    /\ repeated
    /\ op = "evaluate_partition"
    /\ Len(args.lam) = 2
    /\ outcome.kind = "return"

(* C8: in every matrix built, a cell of negative index is 0 and a cell of  *)
(* index in 0..D is h_idx.                                                 *)
CellsOK(cfg, m) ==
    /\ Len(m) = Len(cfg.lam)
    /\ \A c \in ClaimCells(cfg) :
        /\ ClaimIdx(cfg, c[1], c[2]) < 0 => m[c[1]][c[2]] = Zero
        /\ (ClaimIdx(cfg, c[1], c[2]) >= 0 /\ ClaimIdx(cfg, c[1], c[2]) <= degree)
              => m[c[1]][c[2]] = h_basis[ClaimIdx(cfg, c[1], c[2]) + 1]

C8_ZeroIndexConvention ==
    /\ (op = "evaluate_partition" /\ Len(built) = 1) => CellsOK(args, built[1])
    /\ (op = "compare_topologies" /\ Len(built) >= 1) => CellsOK(args.config_a, built[1])
    /\ (op = "compare_topologies" /\ Len(built) = 2) => CellsOK(args.config_b, built[2])

C8_Witness ==
    /\ op = "evaluate_partition"
    /\ Len(built) = 1
    /\ args.mu # None
    /\ Len(args.mu[1]) < Len(args.lam)
    /\ \E c \in ClaimCells(args) : ClaimIdx(args, c[1], c[2]) < 0
    /\ \E c \in ClaimCells(args) : ClaimIdx(args, c[1], c[2]) > 0

(* C9: with a basis ready, evaluate_partition of the empty shape builds    *)
(* the 0 x 0 matrix and returns 1.                                         *)
C9_EmptyShape ==
    (BasisReady /\ op = "evaluate_partition" /\ args = Config(<<>>, Some(<<>>)))
        => outcome = Return(One) /\ built = << <<>> >>

C9_Witness ==
    /\ BasisReady
    /\ op = "evaluate_partition"
    /\ args = Config(<<>>, Some(<<>>))
    /\ outcome = Return(One)

(* C10: with a basis ready, evaluate_partition with mu longer than lambda  *)
(* is rejected with a length-mismatch error.                               *)
LengthMismatchError == "LengthMismatchError"

C10_LengthMismatchRejected ==
    (BasisReady /\ op = "evaluate_partition" /\ args.mu # None
        /\ Len(args.mu[1]) > Len(args.lam))
        => outcome = Raise(LengthMismatchError)

====
